---- MODULE Spec2Model ----
(***************************************************************************)
(* Gunter (src/app.py): the GeoDBManager database lifecycle, the scheduler *)
(* that drives check_for_new_release_and_update, and the request handlers  *)
(* (GeoLookup.get, Status.get) that read the manager while it refreshes.   *)
(*                                                                         *)
(* Every statement of download_and_load_database that another thread can   *)
(* observe is one step of the refresh job; the handlers run in waitress    *)
(* worker threads and interleave with it (the code takes no lock).         *)
(***************************************************************************)
EXTENDS Integers, FiniteSets, Sequences, TLC

\* ------------------------------------------------------------------ bounds
\* Number of scheduler ticks (interval firings) explored after start-up.
MaxTicks == 2
\* Wall-clock readings (seconds) explored when the clock is not assumed to
\* advance between refreshes.
MaxClock == 2
\* Entries of a 'names' mapping handed to filter_names_by_lang.
MaxNames == 2

\* ------------------------------------------------------------------ values
\* None for mmdb_reader (readers are numbered from 1, in the order opened).
NoReader == 0
\* None for last_db_update_time (the clock starts at 1).
NoTime == 0
\* None for a path. A path is <<kind, timestamp>>: the file name the code
\* builds from strftime("%Y%m%d%H%M%S") at the start of a refresh.
NoPath == <<"none", 0>>
\* Config.CUSTOM_DB_FILE, a path outside the manager's control.
CustomPath == <<"custom", 0>>

ExternalPath(ts) == <<"external", ts>>
TarGzPath(ts) == <<"GeoLite2-City.tar.gz", ts>>
ExtractedPath(ts) == <<"GeoLite2-City.mmdb", ts>>

VARIABLES
  \* Config (class attributes read from the environment; fixed for the run)
  EXTERNAL_DB_URL,        \* TRUE iff GUNTER_DB_URL is set
  CUSTOM_DB_FILE,         \* TRUE iff GUNTER_DB_FILE is set
  MAXMIND_LICENSE_KEY,    \* TRUE iff GUNTER_MAXMIND_LICENSE_KEY is set
  \* GeoDBManager fields
  mmdb_reader,
  last_db_update_time,
  current_db_version_tag,
  current_db_file_path,
  \* the environment: file system, readers, wall clock
  disk,                   \* the paths that exist
  readers,                \* reader id -> path it was opened from
  closed,                 \* the readers close() was called on
  now,                    \* wall clock, in units of the file-name timestamp
  \* __main__ and the scheduler
  phase,                  \* "startup" | "serving" | "crashed"
  running,                \* instances of the job executing
  ticks,                  \* interval firings so far
  dropped,                \* firings skipped because the job was running
  \* the refresh job (download_and_load_database and its caller)
  pc,
  caller,                 \* "main" | "scheduler"
  timestamp,              \* local: strftime("%Y%m%d%H%M%S") of datetime.now()
  new_db_filepath,        \* local new_db_filepath (external) / extracted_path
  tar_gz_path,            \* local of the vendor branch
  \* history of the refresh in progress / last completed
  start_reader,           \* mmdb_reader when the refresh started
  start_path,             \* current_db_file_path when the refresh started
  start_disk,             \* disk when the refresh started
  outcome,                \* none | running | ok | failed | skipped | raised
  created,                \* paths this refresh created
  removed,                \* paths this refresh removed
  opened_new,             \* TRUE once open_database returned in this refresh
  gap,                    \* TRUE once this refresh left mmdb_reader unusable
  stable,                 \* the manager states at refresh boundaries
  \* GeoLookup.get (one request at a time, repeated)
  lpc, l_reader, l_input, l_result,
  l_served,               \* the reader whose get() answered the request
  l_whois,                \* what get_whois_data did for the request
  \* Status.get / get_status
  spc, s_loaded, s_time, s_result,
  \* a call of filter_names_by_lang(data, lang_code)
  fpc,                    \* "idle" | "call" | "done"
  f_data, f_lang,         \* the arguments
  f_out                   \* the value returned

cfgvars == <<EXTERNAL_DB_URL, CUSTOM_DB_FILE, MAXMIND_LICENSE_KEY>>
mgrvars == <<mmdb_reader, last_db_update_time, current_db_version_tag,
             current_db_file_path>>
envvars == <<disk, readers, closed>>
schedvars == <<phase, running, ticks, dropped, now>>
jobvars == <<pc, caller, timestamp, new_db_filepath, tar_gz_path>>
histvars == <<start_reader, start_path, start_disk, outcome, created, removed,
              opened_new, gap, stable>>
lookupvars == <<lpc, l_reader, l_input, l_result, l_served, l_whois>>
statusvars == <<spc, s_loaded, s_time, s_result>>
filtervars == <<fpc, f_data, f_lang, f_out>>
vars == <<cfgvars, mgrvars, envvars, schedvars, jobvars, histvars, lookupvars,
          statusvars, filtervars>>

\* ---------------------------------------------------------------- helpers
\* Config.MAXMIND_DOWNLOAD_URL is set exactly when the license key is.
MAXMIND_DOWNLOAD_URL == MAXMIND_LICENSE_KEY

\* Variant: with nothing configured the vendor archive is tried anyway.
Strategy_VendorFallback ==
  IF EXTERNAL_DB_URL THEN "external"
  ELSE IF CUSTOM_DB_FILE THEN "local"
  ELSE "vendor"

\* Variant: the local file is tested before the external URL.
Strategy_LocalFirst ==
  IF CUSTOM_DB_FILE THEN "local"
  ELSE IF EXTERNAL_DB_URL THEN "external"
  ELSE IF MAXMIND_LICENSE_KEY /\ MAXMIND_DOWNLOAD_URL THEN "vendor"
  ELSE "none"

\* The branch download_and_load_database takes: the if-chain of its body.
Strategy ==
  IF EXTERNAL_DB_URL THEN "external"
  ELSE IF CUSTOM_DB_FILE THEN "local"
  ELSE IF MAXMIND_LICENSE_KEY /\ MAXMIND_DOWNLOAD_URL THEN "vendor"
  ELSE "none"

\* os.path.exists
Exists(path) == path \in disk

\* The files in DB_DIR: everything on disk except the externally owned file.
ManagerFiles(d) == d \ {CustomPath}

\* A fresh reader id for maxminddb.open_database.
NewReader == Cardinality(DOMAIN readers) + 1

\* Variant: the update time is reported as 'N/A' whether set or not.
StatusOf_TimeNotReported(reader, time, tag, path) ==
  [database_loaded |-> reader # NoReader,
   last_database_update_check_utc |-> <<"N/A", 0>>,
   current_database_version_tag |-> tag,
   current_database_file |-> IF path # NoPath THEN path ELSE <<"N/A", 0>>]

\* The manager state a get_status call made now would report.
StatusOf(reader, time, tag, path) ==
  [database_loaded |-> reader # NoReader,
   last_database_update_check_utc |->
      IF time # NoTime THEN <<"iso", time>> ELSE <<"N/A", 0>>,
   current_database_version_tag |-> tag,
   current_database_file |-> IF path # NoPath THEN path ELSE <<"N/A", 0>>]

CurrentStatus ==
  StatusOf(mmdb_reader, last_db_update_time, current_db_version_tag,
           current_db_file_path)

\* A request that reads mmdb_reader now gets None or a closed reader.
ReaderUnusable == mmdb_reader = NoReader \/ mmdb_reader \in closed

\* Variant: the current file is removed without comparing it to the new path.
cleanup_old_db_files_NoCompare(new_path) ==
  IF current_db_file_path # NoPath /\ Exists(current_db_file_path)
  THEN disk \ {current_db_file_path}
  ELSE disk

\* Variant: the cleanup after a load removes every database file in DB_DIR,
\* the new one included.
cleanup_old_db_files_all(new_path) ==
  disk \ ManagerFiles(disk)

\* GeoDBManager._cleanup_old_db_files(new_db_filepath): the disk afterwards.
cleanup_old_db_files(new_path) ==
  IF /\ current_db_file_path # NoPath
     /\ current_db_file_path # new_path
     /\ Exists(current_db_file_path)
  THEN disk \ {current_db_file_path}
  ELSE disk

\* Variant: the failed-download cleanup also removes the file the manager
\* currently points at.
cleanup_failed_download_and_current(filepath) ==
  disk \ {filepath, current_db_file_path}

\* GeoDBManager._cleanup_failed_download(filepath): the disk afterwards.
cleanup_failed_download(filepath) ==
  IF Exists(filepath) THEN disk \ {filepath} ELSE disk

\* ------------------------------------------------------------ Python values
\* The values filter_names_by_lang sees: None, a string, a dict (its items in
\* insertion order, as pairs <<key, value>>) or a list (items as pairs with an
\* empty key). One record shape for all of them.
PyNone == [t |-> "none", s |-> "", kv |-> <<>>]
PyStr(str) == [t |-> "str", s |-> str, kv |-> <<>>]
PyDict(items) == [t |-> "dict", s |-> "", kv |-> items]
PyList(items) ==
  [t |-> "list", s |-> "", kv |-> [i \in 1..Len(items) |-> <<"", items[i]>>]]

\* bool(value): None, "" and empty containers are false.
Truthy(value) ==
  CASE value.t = "none" -> FALSE
    [] value.t = "str" -> value.s # ""
    [] OTHER -> value.kv # <<>>

\* key in d
HasKey(items, key) == \E i \in 1..Len(items) : items[i][1] = key

\* d.get(key): the value, or None
Get(items, key) ==
  IF HasKey(items, key)
  THEN items[CHOOSE i \in 1..Len(items) : items[i][1] = key][2]
  ELSE PyNone

\* d[key] = value: an existing key keeps its position, a new one goes last.
SetKey(items, key, value) ==
  IF HasKey(items, key)
  THEN [i \in 1..Len(items) |->
          IF items[i][1] = key THEN <<key, value>> ELSE items[i]]
  ELSE Append(items, <<key, value>>)

\* next(iter(names.values()), None)
FirstValue(items) == IF items = <<>> THEN PyNone ELSE items[1][2]

\* a or b
Or(a, b) == IF Truthy(a) THEN a ELSE b

\* -------------------------------------------------------------------- Init
\* GeoDBManager.__init__, and __main__ before the initial load. Any subset of
\* the three sources may be configured; the custom file may or may not exist.
InitService ==
  /\ EXTERNAL_DB_URL \in BOOLEAN
  /\ CUSTOM_DB_FILE \in BOOLEAN
  /\ MAXMIND_LICENSE_KEY \in BOOLEAN
  /\ mmdb_reader = NoReader
  /\ last_db_update_time = NoTime
  /\ current_db_version_tag = "N/A"
  /\ current_db_file_path = NoPath
  /\ disk \in {{}, {CustomPath}}
  /\ (~CUSTOM_DB_FILE => disk = {})
  /\ readers = <<>>
  /\ closed = {}
  /\ now = 1
  /\ phase = "startup"
  /\ running = 0
  /\ ticks = 0
  /\ dropped = 0
  /\ pc = "idle"
  /\ caller = "main"
  /\ timestamp = 0
  /\ new_db_filepath = NoPath
  /\ tar_gz_path = NoPath
  /\ start_reader = NoReader
  /\ start_path = NoPath
  /\ start_disk = {}
  /\ outcome = "none"
  /\ created = {}
  /\ removed = {}
  /\ opened_new = FALSE
  /\ gap = FALSE
  /\ stable = {StatusOf(NoReader, NoTime, "N/A", NoPath)}
  /\ lpc = "idle"
  /\ l_reader = NoReader
  /\ l_input = "none"
  /\ l_result = "none"
  /\ l_served = NoReader
  /\ l_whois = "none"
  /\ spc = "idle"
  /\ s_loaded = FALSE
  /\ s_time = NoTime
  /\ s_result = StatusOf(NoReader, NoTime, "N/A", NoPath)

\* No call of filter_names_by_lang is followed.
Init ==
  /\ InitService
  /\ fpc = "idle"
  /\ f_data = PyNone
  /\ f_lang = "en"
  /\ f_out = PyNone

\* --------------------------------------------------- __main__ and scheduler
\* Entering download_and_load_database: remember what the manager held.
Enter ==
  /\ start_reader' = mmdb_reader
  /\ start_path' = current_db_file_path
  /\ start_disk' = disk
  /\ outcome' = "running"
  /\ created' = {}
  /\ removed' = {}
  /\ opened_new' = FALSE
  /\ gap' = FALSE
  /\ UNCHANGED stable

\* Variant: the scheduler and the server are started before the initial load
\* has returned.
InitialLoad_Background ==
  /\ phase = "startup" /\ pc = "idle" /\ outcome = "none"
  /\ pc' = "makedirs"
  /\ caller' = "main"
  /\ phase' = "serving"
  /\ Enter
  /\ UNCHANGED <<cfgvars, mgrvars, envvars, running, ticks, dropped, now,
                 timestamp, new_db_filepath, tar_gz_path, lookupvars,
                 statusvars, filtervars>>

\* __main__: db_manager.download_and_load_database() before scheduler.start().
InitialLoad ==
  /\ phase = "startup" /\ pc = "idle" /\ outcome = "none"
  /\ pc' = "makedirs"
  /\ caller' = "main"
  /\ Enter
  /\ UNCHANGED <<cfgvars, mgrvars, envvars, schedvars, timestamp,
                 new_db_filepath, tar_gz_path, lookupvars, statusvars, filtervars>>

\* scheduler.add_job(...) names no max_instances: the scheduler's default.
max_instances == 1

\* Variant: a firing starts the job although an instance is executing.
SchedulerTick_NoSkip ==
  /\ phase = "serving" /\ ticks < MaxTicks
  /\ ticks' = ticks + 1
  /\ now' = now + 1
  /\ running' = running + 1
  /\ pc' = "check"
  /\ caller' = "scheduler"
  /\ UNCHANGED dropped
  /\ UNCHANGED <<cfgvars, mgrvars, envvars, phase, timestamp, new_db_filepath,
                 tar_gz_path, histvars, lookupvars, statusvars, filtervars>>

\* The interval trigger fires (one interval later on the wall clock). The job
\* was added with add_job's defaults, so one instance at most runs: a firing
\* that finds the job still executing is skipped, not queued.
SchedulerTick ==
  /\ phase = "serving" /\ ticks < MaxTicks
  /\ ticks' = ticks + 1
  /\ now' = now + 1
  /\ IF running >= max_instances
     THEN /\ dropped' = dropped + 1
          /\ UNCHANGED <<running, pc, caller>>
     ELSE /\ running' = running + 1
          /\ pc' = "check"
          /\ caller' = "scheduler"
          /\ UNCHANGED dropped
  /\ UNCHANGED <<cfgvars, mgrvars, envvars, phase, timestamp, new_db_filepath,
                 tar_gz_path, histvars, lookupvars, statusvars, filtervars>>

\* The job's function returns to its caller: scheduler.start() and serve(app)
\* follow the initial load; the scheduler frees the job's instance. An
\* exception out of the initial load ends __main__ before either is reached;
\* one out of the job is logged by the scheduler's executor.
ReturnToCaller(result) ==
  /\ pc' = "idle"
  /\ outcome' = result
  /\ stable' = stable \cup {CurrentStatus}
  /\ IF caller = "main"
     THEN /\ phase' = IF result = "raised" THEN "crashed" ELSE "serving"
          /\ UNCHANGED running
     ELSE running' = running - 1 /\ UNCHANGED phase
  /\ gap' = (gap \/ (result # "skipped" /\ ReaderUnusable))
  /\ UNCHANGED <<start_reader, start_path, start_disk, created, removed,
                 opened_new>>
  /\ UNCHANGED <<ticks, dropped, now, caller, timestamp, new_db_filepath,
                 tar_gz_path>>

\* Variant: the update check does not test CUSTOM_DB_FILE.
CheckForNewRelease_NoCustomSkip ==
  /\ pc = "check"
  /\ IF EXTERNAL_DB_URL \/ (MAXMIND_LICENSE_KEY /\ MAXMIND_DOWNLOAD_URL)
     THEN /\ pc' = "makedirs"
          /\ Enter
     ELSE /\ pc' = "ret_skipped"
          /\ UNCHANGED histvars
  /\ UNCHANGED <<cfgvars, mgrvars, envvars, schedvars, caller, timestamp,
                 new_db_filepath, tar_gz_path, lookupvars, statusvars, filtervars>>

\* Variant: with CUSTOM_DB_FILE set the update check loads the file again.
CheckForNewRelease_RetriesLocal ==
  /\ pc = "check"
  /\ IF CUSTOM_DB_FILE \/ EXTERNAL_DB_URL
        \/ (MAXMIND_LICENSE_KEY /\ MAXMIND_DOWNLOAD_URL)
     THEN /\ pc' = "makedirs"
          /\ Enter
     ELSE /\ pc' = "ret_skipped"
          /\ UNCHANGED histvars
  /\ UNCHANGED <<cfgvars, mgrvars, envvars, schedvars, caller, timestamp,
                 new_db_filepath, tar_gz_path, lookupvars, statusvars, filtervars>>

\* GeoDBManager.check_for_new_release_and_update
CheckForNewRelease ==
  /\ pc = "check"
  /\ IF CUSTOM_DB_FILE
     THEN /\ pc' = "ret_skipped"
          /\ UNCHANGED histvars
     ELSE IF EXTERNAL_DB_URL \/ (MAXMIND_LICENSE_KEY /\ MAXMIND_DOWNLOAD_URL)
     THEN /\ pc' = "makedirs"
          /\ Enter
     ELSE /\ pc' = "ret_skipped"
          /\ UNCHANGED histvars
  /\ UNCHANGED <<cfgvars, mgrvars, envvars, schedvars, caller, timestamp,
                 new_db_filepath, tar_gz_path, lookupvars, statusvars, filtervars>>

ReturnSkipped ==
  /\ pc = "ret_skipped"
  /\ ReturnToCaller("skipped")
  /\ UNCHANGED <<cfgvars, mgrvars, envvars, lookupvars, statusvars, filtervars>>

ReturnOk ==
  /\ pc = "ret_ok"
  /\ ReturnToCaller("ok")
  /\ UNCHANGED <<cfgvars, mgrvars, envvars, lookupvars, statusvars, filtervars>>

ReturnFailed ==
  /\ pc = "ret_failed"
  /\ ReturnToCaller("failed")
  /\ UNCHANGED <<cfgvars, mgrvars, envvars, lookupvars, statusvars, filtervars>>

\* An exception leaves download_and_load_database (and, when the scheduler
\* called, check_for_new_release_and_update, which has no handler either).
ReturnRaised ==
  /\ pc = "raised"
  /\ ReturnToCaller("raised")
  /\ UNCHANGED <<cfgvars, mgrvars, envvars, lookupvars, statusvars, filtervars>>

\* ------------------------------------------- download_and_load_database
\* What a step of the refresh leaves alone outside the manager and the disk.
JobFrame == UNCHANGED <<cfgvars, schedvars, caller, lookupvars, statusvars, filtervars>>

\* Bookkeeping of one step: the paths it created (or truncated) and removed,
\* and whether open_database has returned.
HistStep(c, r, o) ==
  /\ created' = created \cup c
  /\ removed' = removed \cup r
  /\ opened_new' = (opened_new \/ o)
  /\ gap' = (gap \/ ReaderUnusable)
  /\ UNCHANGED <<start_reader, start_path, start_disk, outcome, stable>>

\* os.makedirs, then the if-chain that picks the source, and the locals each
\* branch sets up before its try block (timestamp and target paths).
\* os.makedirs stands before every try block: when the directory cannot be
\* created its OSError leaves the function.
SelectSource ==
  /\ pc = "makedirs"
  /\ \E made \in BOOLEAN :
       IF ~made
       THEN /\ pc' = "raised"
            /\ UNCHANGED <<timestamp, new_db_filepath, tar_gz_path>>
       ELSE /\ timestamp' = now
            /\ CASE Strategy = "external" ->
                      /\ new_db_filepath' = ExternalPath(now)
                      /\ pc' = "ext_fetch"
                      /\ UNCHANGED tar_gz_path
                 [] Strategy = "local" ->
                      /\ new_db_filepath' = CustomPath
                      /\ pc' = "close_old"
                      /\ UNCHANGED tar_gz_path
                 [] Strategy = "vendor" ->
                      /\ tar_gz_path' = TarGzPath(now)
                      /\ new_db_filepath' = NoPath
                      /\ pc' = "ven_fetch"
                 [] OTHER ->
                      /\ pc' = "no_source"
                      /\ UNCHANGED <<new_db_filepath, tar_gz_path>>
  /\ HistStep({}, {}, FALSE)
  /\ JobFrame
  /\ UNCHANGED <<mgrvars, envvars>>

\* Variant: the connection is made without a timeout, so a server that does
\* not answer blocks the call for good.
ExtFetch_NoTimeout ==
  /\ pc = "ext_fetch"
  /\ \E res \in {"ok", "raises", "hangs"} :
       pc' = CASE res = "ok" -> "ext_write"
               [] res = "raises" -> "except"
               [] OTHER -> "blocked"
  /\ HistStep({}, {}, FALSE)
  /\ JobFrame
  /\ UNCHANGED <<mgrvars, envvars, timestamp, new_db_filepath, tar_gz_path>>

\* External branch: ftp.connect/login, or requests.get + raise_for_status.
\* Nothing is on disk yet; either the transfer can start or the call raises.
ExtFetch ==
  /\ pc = "ext_fetch"
  /\ \E ok \in BOOLEAN : pc' = IF ok THEN "ext_write" ELSE "except"
  /\ HistStep({}, {}, FALSE)
  /\ JobFrame
  /\ UNCHANGED <<mgrvars, envvars, timestamp, new_db_filepath, tar_gz_path>>

\* External branch: open(new_db_filepath, "wb") and the writes of the body.
\* open may raise (nothing created); the transfer may break off (a partial
\* file stays); or the whole body is written.
ExtWrite ==
  /\ pc = "ext_write"
  /\ \E res \in {"open_raises", "partial", "complete"} :
       /\ disk' = IF res = "open_raises" THEN disk
                  ELSE disk \cup {new_db_filepath}
       /\ pc' = IF res = "complete" THEN "close_old" ELSE "except"
       /\ HistStep(IF res = "open_raises" THEN {} ELSE {new_db_filepath},
                   {}, FALSE)
  /\ JobFrame
  /\ UNCHANGED <<mgrvars, readers, closed, timestamp, new_db_filepath,
                 tar_gz_path>>

\* Vendor branch: requests.get(MAXMIND_DOWNLOAD_URL) + raise_for_status.
VendorFetch ==
  /\ pc = "ven_fetch"
  /\ \E ok \in BOOLEAN : pc' = IF ok THEN "ven_write" ELSE "except"
  /\ HistStep({}, {}, FALSE)
  /\ JobFrame
  /\ UNCHANGED <<mgrvars, envvars, timestamp, new_db_filepath, tar_gz_path>>

\* Vendor branch: open(tar_gz_path, "wb") and the writes of the archive.
VendorWrite ==
  /\ pc = "ven_write"
  /\ \E res \in {"open_raises", "partial", "complete"} :
       /\ disk' = IF res = "open_raises" THEN disk
                  ELSE disk \cup {tar_gz_path}
       /\ pc' = IF res = "complete" THEN "ven_extract" ELSE "except"
       /\ HistStep(IF res = "open_raises" THEN {} ELSE {tar_gz_path},
                   {}, FALSE)
  /\ JobFrame
  /\ UNCHANGED <<mgrvars, readers, closed, timestamp, new_db_filepath,
                 tar_gz_path>>

\* Variant: an archive without a .mmdb member is not noticed; the refresh goes
\* on to load extracted_path.
VendorExtract_IgnoresMissingMember ==
  /\ pc = "ven_extract"
  /\ \E res \in {"bad_archive", "no_member", "partial", "complete"} :
       LET made == res \in {"partial", "complete"}
       IN  /\ new_db_filepath' = IF made THEN ExtractedPath(timestamp)
                                 ELSE new_db_filepath
           /\ disk' = IF made THEN disk \cup {ExtractedPath(timestamp)}
                      ELSE disk
           /\ pc' = IF res \in {"complete", "no_member"} THEN "close_old"
                    ELSE "except"
           /\ HistStep(IF made THEN {ExtractedPath(timestamp)} ELSE {},
                       {}, FALSE)
  /\ JobFrame
  /\ UNCHANGED <<mgrvars, readers, closed, timestamp, tar_gz_path>>

\* Vendor branch: tarfile.open, the search for a member ending in .mmdb, and
\* the write of extracted_path. The archive may be unreadable, may hold no
\* such member (RuntimeError), the write of the member may break off after
\* extracted_path was created, or the member is extracted whole.
VendorExtract ==
  /\ pc = "ven_extract"
  /\ \E res \in {"bad_archive", "no_member", "partial", "complete"} :
       LET made == res \in {"partial", "complete"}
       IN  /\ new_db_filepath' = IF made THEN ExtractedPath(timestamp)
                                 ELSE new_db_filepath
           /\ disk' = IF made THEN disk \cup {ExtractedPath(timestamp)}
                      ELSE disk
           /\ pc' = CASE res = "complete" -> "close_old"
                      [] res = "no_member" -> "no_mmdb_member"
                      [] OTHER -> "except"
           /\ HistStep(IF made THEN {ExtractedPath(timestamp)} ELSE {},
                       {}, FALSE)
  /\ JobFrame
  /\ UNCHANGED <<mgrvars, readers, closed, timestamp, tar_gz_path>>

\* if not mmdb_member: raise RuntimeError("No .mmdb file found ...")
RaiseNoMember ==
  /\ pc = "no_mmdb_member"
  /\ pc' = "except"
  /\ HistStep({}, {}, FALSE)
  /\ JobFrame
  /\ UNCHANGED <<mgrvars, envvars, timestamp, new_db_filepath, tar_gz_path>>

\* Variant: the old database file is removed together with closing the old
\* reader, before the new file is opened.
CloseOld_DeletingFile ==
  /\ pc = "close_old"
  /\ closed' = IF mmdb_reader # NoReader THEN closed \cup {mmdb_reader}
               ELSE closed
  /\ disk' = cleanup_old_db_files(new_db_filepath)
  /\ pc' = "open"
  /\ HistStep({}, disk \ disk', FALSE)
  /\ JobFrame
  /\ UNCHANGED <<mgrvars, readers, timestamp, new_db_filepath, tar_gz_path>>

\* if self.mmdb_reader: self.mmdb_reader.close()
\* The call is inside the try block: should close() raise, the except block
\* runs (the reader is then taken as not closed).
CloseOld ==
  /\ pc = "close_old"
  /\ \E ok \in BOOLEAN :
       /\ (ok \/ mmdb_reader # NoReader)
       /\ closed' = IF ok /\ mmdb_reader # NoReader
                    THEN closed \cup {mmdb_reader} ELSE closed
       /\ pc' = IF ok THEN "open" ELSE "except"
  /\ HistStep({}, {}, FALSE)
  /\ JobFrame
  /\ UNCHANGED <<mgrvars, disk, readers, timestamp, new_db_filepath,
                 tar_gz_path>>

\* Variant: a failure of open_database is not caught (the handler catches a
\* narrower exception class) and leaves the function.
OpenDatabase_Unhandled ==
  /\ pc = "open"
  /\ \E valid \in BOOLEAN :
       IF valid /\ Exists(new_db_filepath)
       THEN /\ readers' = readers @@ (NewReader :> new_db_filepath)
            /\ mmdb_reader' = NewReader
            /\ pc' = "set_time"
            /\ HistStep({}, {}, TRUE)
       ELSE /\ pc' = "raised"
            /\ HistStep({}, {}, FALSE)
            /\ UNCHANGED <<readers, mmdb_reader>>
  /\ JobFrame
  /\ UNCHANGED <<last_db_update_time, current_db_version_tag,
                 current_db_file_path, disk, closed, timestamp,
                 new_db_filepath, tar_gz_path>>

\* self.mmdb_reader = maxminddb.open_database(path). It raises when the file
\* is missing, and may raise on a file that exists (not a valid database).
OpenDatabase ==
  /\ pc = "open"
  /\ \E valid \in BOOLEAN :
       IF valid /\ Exists(new_db_filepath)
       THEN /\ readers' = readers @@ (NewReader :> new_db_filepath)
            /\ mmdb_reader' = NewReader
            /\ pc' = "set_time"
            /\ HistStep({}, {}, TRUE)
       ELSE /\ pc' = "except"
            /\ HistStep({}, {}, FALSE)
            /\ UNCHANGED <<readers, mmdb_reader>>
  /\ JobFrame
  /\ UNCHANGED <<last_db_update_time, current_db_version_tag,
                 current_db_file_path, disk, closed, timestamp,
                 new_db_filepath, tar_gz_path>>

\* self.last_db_update_time = datetime.now()
SetUpdateTime ==
  /\ pc = "set_time"
  /\ last_db_update_time' = now
  /\ pc' = IF Strategy = "local" THEN "set_path" ELSE "cleanup_old"
  /\ HistStep({}, {}, FALSE)
  /\ JobFrame
  /\ UNCHANGED <<mmdb_reader, current_db_version_tag, current_db_file_path,
                 envvars, timestamp, new_db_filepath, tar_gz_path>>

\* self._cleanup_old_db_files(new_db_filepath)
CleanupOld ==
  /\ pc = "cleanup_old"
  /\ disk' = cleanup_old_db_files(new_db_filepath)
  /\ pc' = "set_path"
  /\ HistStep({}, disk \ disk', FALSE)
  /\ JobFrame
  /\ UNCHANGED <<mgrvars, readers, closed, timestamp, new_db_filepath,
                 tar_gz_path>>

\* Variant: the path of the loaded file is not recorded.
SetFilePath_Stale ==
  /\ pc = "set_path"
  /\ pc' = "ret_ok"
  /\ HistStep({}, {}, FALSE)
  /\ JobFrame
  /\ UNCHANGED <<mmdb_reader, last_db_update_time, current_db_version_tag,
                 current_db_file_path, envvars, timestamp, new_db_filepath,
                 tar_gz_path>>

\* self.current_db_file_path = new_db_filepath; return
SetFilePath ==
  /\ pc = "set_path"
  /\ current_db_file_path' = new_db_filepath
  /\ pc' = "ret_ok"
  /\ HistStep({}, {}, FALSE)
  /\ JobFrame
  /\ UNCHANGED <<mmdb_reader, last_db_update_time, current_db_version_tag,
                 envvars, timestamp, new_db_filepath, tar_gz_path>>

\* Variant: the except block also records the path of the failed download
\* as the current file.
Except_RecordsPath ==
  /\ pc = "except"
  /\ mmdb_reader' = NoReader
  /\ current_db_file_path' = new_db_filepath
  /\ pc' = IF Strategy = "local" THEN "ret_failed" ELSE "cleanup_failed"
  /\ HistStep({}, {}, FALSE)
  /\ JobFrame
  /\ UNCHANGED <<last_db_update_time, current_db_version_tag,
                 envvars, timestamp, new_db_filepath, tar_gz_path>>

\* Variant: the except block also resets the update time.
Except_ResetsTime ==
  /\ pc = "except"
  /\ mmdb_reader' = NoReader
  /\ last_db_update_time' = NoTime
  /\ pc' = IF Strategy = "local" THEN "ret_failed" ELSE "cleanup_failed"
  /\ HistStep({}, {}, FALSE)
  /\ JobFrame
  /\ UNCHANGED <<current_db_version_tag, current_db_file_path, envvars,
                 timestamp, new_db_filepath, tar_gz_path>>

\* Variant: the except block of the local-file branch removes the file it
\* failed to load, as the download branches do.
Except_CleaningLocal ==
  /\ pc = "except"
  /\ mmdb_reader' = NoReader
  /\ pc' = IF Strategy = "local" THEN "ret_failed" ELSE "cleanup_failed"
  /\ disk' = IF Strategy = "local" THEN disk \ {new_db_filepath} ELSE disk
  /\ HistStep({}, {}, FALSE)
  /\ JobFrame
  /\ UNCHANGED <<last_db_update_time, current_db_version_tag,
                 current_db_file_path, readers, closed, timestamp,
                 new_db_filepath, tar_gz_path>>

\* except Exception: self.mmdb_reader = None
Except ==
  /\ pc = "except"
  /\ mmdb_reader' = NoReader
  /\ pc' = IF Strategy = "local" THEN "ret_failed" ELSE "cleanup_failed"
  /\ HistStep({}, {}, FALSE)
  /\ JobFrame
  /\ UNCHANGED <<last_db_update_time, current_db_version_tag,
                 current_db_file_path, envvars, timestamp, new_db_filepath,
                 tar_gz_path>>

\* The path the except block hands to _cleanup_failed_download:
\* new_db_filepath in the external branch, tar_gz_path in the vendor branch.
FailedDownloadPath ==
  IF Strategy = "external" THEN new_db_filepath ELSE tar_gz_path

\* self._cleanup_failed_download(...); return
CleanupFailed ==
  /\ pc = "cleanup_failed"
  /\ disk' = cleanup_failed_download(FailedDownloadPath)
  /\ pc' = "ret_failed"
  /\ HistStep({}, disk \ disk', FALSE)
  /\ JobFrame
  /\ UNCHANGED <<mgrvars, readers, closed, timestamp, new_db_filepath,
                 tar_gz_path>>

\* No source configured: log.error(...); self.mmdb_reader = None
NoSource ==
  /\ pc = "no_source"
  /\ mmdb_reader' = NoReader
  /\ pc' = "ret_failed"
  /\ HistStep({}, {}, FALSE)
  /\ JobFrame
  /\ UNCHANGED <<last_db_update_time, current_db_version_tag,
                 current_db_file_path, envvars, timestamp, new_db_filepath,
                 tar_gz_path>>

\* ------------------------------------------------------------ GeoLookup.get
\* The path parameter of a request: an address the database has a record
\* for, one it has none for, a domain name that resolves (to an address with
\* a record), or a string that is neither an address nor resolvable.
LookupInputs == {"known_ip", "unknown_ip", "domain", "bad_name"}

LookupFrame ==
  UNCHANGED <<cfgvars, mgrvars, envvars, schedvars, jobvars, histvars,
              statusvars, filtervars>>

\* Variant: a request that finds no reader is answered 404.
LookupCheckLoaded_NotFound ==
  /\ phase = "serving"
  /\ lpc \in {"idle", "done"}
  /\ \E ip \in LookupInputs : l_input' = ip
  /\ IF mmdb_reader = NoReader
     THEN lpc' = "done" /\ l_result' = "404"
     ELSE lpc' = "validate" /\ l_result' = "none"
  /\ l_reader' = NoReader
  /\ l_served' = NoReader
  /\ l_whois' = "none"
  /\ LookupFrame

\* A request arrives (the server is accepting them): the handler's first
\* statement, if not db_manager.mmdb_reader: abort(503).
LookupCheckLoaded ==
  /\ phase = "serving"
  /\ lpc \in {"idle", "done"}
  /\ \E ip \in LookupInputs : l_input' = ip
  /\ IF mmdb_reader = NoReader
     THEN lpc' = "done" /\ l_result' = "503"
     ELSE lpc' = "validate" /\ l_result' = "none"
  /\ l_reader' = NoReader
  /\ l_served' = NoReader
  /\ l_whois' = "none"
  /\ LookupFrame

\* Variant: the WHOIS target is looked up before the input is validated.
LookupValidate_WhoisFirst ==
  /\ lpc = "validate"
  /\ IF l_input = "bad_name"
     THEN lpc' = "done" /\ l_result' = "400" /\ l_whois' = "partial"
     ELSE lpc' = "load_reader" /\ UNCHANGED <<l_result, l_whois>>
  /\ UNCHANGED <<l_reader, l_input, l_served>>
  /\ LookupFrame

\* ipaddress.ip_address(ip), else socket.gethostbyname(ip), else abort(400).
LookupValidate ==
  /\ lpc = "validate"
  /\ IF l_input = "bad_name"
     THEN lpc' = "done" /\ l_result' = "400"
     ELSE lpc' = "load_reader" /\ UNCHANGED l_result
  /\ UNCHANGED <<l_reader, l_input, l_served, l_whois>>
  /\ LookupFrame

\* record = db_manager.mmdb_reader.get(ip): the attribute is read again ...
LookupLoadReader ==
  /\ lpc = "load_reader"
  /\ l_reader' = mmdb_reader
  /\ lpc' = "get"
  /\ UNCHANGED <<l_input, l_result, l_served, l_whois>>
  /\ LookupFrame

\* The outcome of .get(ip) on the object the handler holds: None has no
\* attribute get (AttributeError), a closed reader raises ValueError, an
\* open one returns the record or None.
ReaderGet(reader, ip) ==
  IF reader = NoReader THEN "AttributeError"
  ELSE IF reader \in closed THEN "ValueError"
  ELSE IF ip = "unknown_ip" THEN "None"
  ELSE "record"

\* ... and .get(ip) is called on it; if not record: abort(404). An exception
\* here is outside the handler's try block: the request fails with it.
LookupGet ==
  /\ lpc = "get"
  /\ LET r == ReaderGet(l_reader, l_input)
     IN  CASE r = "record" -> lpc' = "respond" /\ UNCHANGED l_result
           [] r = "None" -> lpc' = "done" /\ l_result' = "404"
           [] OTHER -> lpc' = "done" /\ l_result' = r
  /\ l_served' = IF ReaderGet(l_reader, l_input) \in {"record", "None"}
                 THEN l_reader ELSE NoReader
  /\ l_reader' = NoReader
  /\ UNCHANGED <<l_input, l_whois>>
  /\ LookupFrame

\* WhoisService.get_whois_data(target), from what its collaborators do.
\* _get_ip_whois and _get_domain_whois catch every Exception and return an
\* "error" entry; resolve_ip_to_domain catches socket.herror and
\* socket.gaierror only, so any other exception of gethostbyaddr leaves
\* get_whois_data.
ReverseDns == {"name", "herror", "other_error"}

get_whois_data(is_ip, whois_ok, rdns) ==
  IF is_ip
  THEN IF rdns = "other_error" THEN "raised"
       ELSE IF whois_ok /\ rdns = "name" THEN "data" ELSE "partial"
  ELSE IF whois_ok THEN "data" ELSE "partial"

\* The try block: filter_names_by_lang, database_info, and unless
\* exclude_whois=true whois_service.get_whois_data(whois_target); return.
\* except Exception: the response is the 500 "internal server error".
LookupRespond ==
  /\ lpc = "respond"
  /\ lpc' = "done"
  /\ \E exclude_whois \in BOOLEAN, whois_ok \in BOOLEAN, rdns \in ReverseDns :
       LET w == get_whois_data(l_input # "domain", whois_ok, rdns)
       IN  /\ l_whois' = IF exclude_whois THEN "none" ELSE w
           /\ l_result' = IF ~exclude_whois /\ w = "raised"
                          THEN "500" ELSE "200"
  /\ UNCHANGED <<l_reader, l_input, l_served>>
  /\ LookupFrame

\* --------------------------------------------- Status.get / get_status
StatusFrame ==
  UNCHANGED <<cfgvars, mgrvars, envvars, schedvars, jobvars, histvars,
              lookupvars, filtervars>>

\* "database_loaded": self.mmdb_reader is not None
StatusReadLoaded ==
  /\ phase = "serving"
  /\ spc \in {"idle", "done"}
  /\ s_loaded' = (mmdb_reader # NoReader)
  /\ spc' = "read_time"
  /\ UNCHANGED <<s_time, s_result>>
  /\ StatusFrame

\* "last_database_update_check_utc": self.last_db_update_time ...
StatusReadTime ==
  /\ spc = "read_time"
  /\ s_time' = last_db_update_time
  /\ spc' = "read_file"
  /\ UNCHANGED <<s_loaded, s_result>>
  /\ StatusFrame

\* "current_database_version_tag", "current_database_file"; return {...}
StatusReadFile ==
  /\ spc = "read_file"
  /\ s_result' = [StatusOf(NoReader, s_time, current_db_version_tag,
                           current_db_file_path)
                  EXCEPT !.database_loaded = s_loaded]
  /\ spc' = "done"
  /\ s_loaded' = FALSE
  /\ s_time' = NoTime
  /\ StatusFrame

\* --------------------------------------------------------------------- Next
Next ==
  \/ InitialLoad
  \/ SchedulerTick
  \/ CheckForNewRelease
  \/ ReturnSkipped
  \/ ReturnOk
  \/ ReturnFailed
  \/ ReturnRaised
  \/ SelectSource
  \/ ExtFetch
  \/ ExtWrite
  \/ VendorFetch
  \/ VendorWrite
  \/ VendorExtract
  \/ RaiseNoMember
  \/ CloseOld
  \/ OpenDatabase
  \/ SetUpdateTime
  \/ CleanupOld
  \/ SetFilePath
  \/ Except
  \/ CleanupFailed
  \/ NoSource
  \/ LookupCheckLoaded
  \/ LookupValidate
  \/ LookupLoadReader
  \/ LookupGet
  \/ LookupRespond
  \/ StatusReadLoaded
  \/ StatusReadTime
  \/ StatusReadFile

Spec == Init /\ [][Next]_vars

\* ------------------------------------------------------ a job that runs
\* The steps of the thread that executes the refresh (the main thread for the
\* initial load, the scheduler's worker afterwards). Every network call
\* carries a timeout (ftp.connect(timeout=30), requests.get(timeout=60) and
\* (timeout=120)), so each step ends by returning or raising: a thread that
\* can take its next step takes it.
RefreshStep ==
  \/ CheckForNewRelease
  \/ ReturnSkipped
  \/ ReturnOk
  \/ ReturnFailed
  \/ ReturnRaised
  \/ SelectSource
  \/ ExtFetch
  \/ ExtWrite
  \/ VendorFetch
  \/ VendorWrite
  \/ VendorExtract
  \/ RaiseNoMember
  \/ CloseOld
  \/ OpenDatabase
  \/ SetUpdateTime
  \/ CleanupOld
  \/ SetFilePath
  \/ Except
  \/ CleanupFailed
  \/ NoSource

\* The refresh on its own: the request handlers take no lock and write no
\* manager field, so they neither delay nor disable a step of the job.
NextRefresh ==
  \/ InitialLoad
  \/ SchedulerTick
  \/ RefreshStep

SpecFair == Init /\ [][NextRefresh]_vars /\ WF_vars(RefreshStep)

\* ---------------------------------------------------- filter_names_by_lang
\* Variant: the requested language or nothing (no fallback language, no
\* first-available name).
selected_name_NoFallback(names, lang_code, fallback_lang) ==
  Get(names, lang_code)

\* selected_name = names.get(lang_code) or names.get(fallback_lang)
\*                 or next(iter(names.values()), None)
selected_name(names, lang_code, fallback_lang) ==
  Or(Get(names, lang_code), Or(Get(names, fallback_lang), FirstValue(names)))

RECURSIVE filter_names_by_lang(_, _, _)
filter_names_by_lang(data, lang_code, fallback_lang) ==
  IF data.t = "dict"
  THEN IF HasKey(data.kv, "names") /\ Get(data.kv, "names").t = "dict"
       THEN LET names == Get(data.kv, "names").kv
                selected == selected_name(names, lang_code, fallback_lang)
                others == SelectSeq(data.kv, LAMBDA p : p[1] # "names")
                new_dict == [i \in 1..Len(others) |->
                               <<others[i][1],
                                 filter_names_by_lang(others[i][2], lang_code,
                                                      fallback_lang)>>]
            IN  IF Truthy(selected)
                THEN PyDict(SetKey(new_dict, "name", selected))
                ELSE PyDict(new_dict)
       ELSE PyDict([i \in 1..Len(data.kv) |->
                      <<data.kv[i][1],
                        filter_names_by_lang(data.kv[i][2], lang_code,
                                             fallback_lang)>>])
  ELSE IF data.t = "list"
  THEN [data EXCEPT !.kv =
          [i \in 1..Len(data.kv) |->
             <<"", filter_names_by_lang(data.kv[i][2], lang_code,
                                        fallback_lang)>>]]
  ELSE data

\* fallback_lang: str = "en"
DefaultFallback == "en"

\* The inputs explored. 'names' mappings of up to MaxNames entries, keyed by
\* language, a value possibly the empty string; requests name a language the
\* mappings may or may not hold.
NameLangs == {"de", "en", "fr"}
NameValues == {"", "Berlin", "Berlino"}
RequestLangs == {"de", "en", "es"}

NamesMappings ==
  UNION {{items \in [1..n -> NameLangs \X {PyStr(v) : v \in NameValues}] :
            \A i, j \in 1..n : i # j => items[i][1] # items[j][1]} :
         n \in 0..MaxNames}

\* A place record of the database: an id next to its names.
Place(names) ==
  PyDict(<< <<"geoname_id", PyStr("2950159")>>, <<"names", PyDict(names)>> >>)

\* Records as the database returns them, and shapes at the edge of the
\* function's cases: places nested in dicts and lists, a 'name' key next to
\* 'names', a 'names' key that holds no mapping, values without any 'names'.
Records ==
     {Place(n) : n \in NamesMappings}
  \cup {PyDict(<< <<"city", Place(n)>>,
                  <<"subdivisions", PyList(<<Place(n), PyStr("BE")>>)>>,
                  <<"iso_code", PyStr("DE")>> >>) : n \in NamesMappings}
  \cup {PyDict(<< <<"name", PyStr("Old")>>, <<"names", PyDict(n)>> >>) :
          n \in NamesMappings}
  \cup {PyDict(<< <<"names", PyList(<<Place(n)>>)>> >>) : n \in NamesMappings}
  \cup {PyDict(<< <<"names", PyStr("plain")>>, <<"code", PyStr("x")>> >>),
        PyDict(<< <<"location", PyDict(<< <<"time_zone", PyStr("UTC")>> >>)>>,
                  <<"tags", PyList(<<PyStr("a"), PyStr("")>>)>> >>),
        PyDict(<<>>), PyList(<<>>), PyStr("8.8.8.8"), PyNone}

\* The call under study, on any of the inputs; the service stays as built.
InitNames ==
  /\ InitService
  /\ ~EXTERNAL_DB_URL /\ ~CUSTOM_DB_FILE /\ ~MAXMIND_LICENSE_KEY
  /\ fpc = "call"
  /\ f_data \in Records
  /\ f_lang \in RequestLangs
  /\ f_out = PyNone

\* processed_record = filter_names_by_lang(record_dict, lang)
CallFilter ==
  /\ fpc = "call"
  /\ f_out' = filter_names_by_lang(f_data, f_lang, DefaultFallback)
  /\ fpc' = "done"
  /\ UNCHANGED <<f_data, f_lang>>
  /\ UNCHANGED <<cfgvars, mgrvars, envvars, schedvars, jobvars, histvars,
                 lookupvars, statusvars>>

NextNames == CallFilter

SpecNames == InitNames /\ [][NextNames]_vars

\* --------------------------------------------------- _cleanup_old_db_files
\* _cleanup_old_db_files(new_db_filepath) on its own: called with any current
\* path (or none), any new path and any set of files on disk.
CleanupPaths ==
  {CustomPath, ExternalPath(1), ExternalPath(2), ExtractedPath(1)}

InitCleanup ==
  /\ EXTERNAL_DB_URL = TRUE
  /\ CUSTOM_DB_FILE = FALSE
  /\ MAXMIND_LICENSE_KEY = FALSE
  /\ mmdb_reader = NoReader
  /\ last_db_update_time = NoTime
  /\ current_db_version_tag = "N/A"
  /\ current_db_file_path \in CleanupPaths \cup {NoPath}
  /\ disk \in SUBSET CleanupPaths
  /\ readers = <<>>
  /\ closed = {}
  /\ now = 1
  /\ phase = "startup"
  /\ running = 0
  /\ ticks = 0
  /\ dropped = 0
  /\ pc = "cleanup_old"
  /\ caller = "main"
  /\ timestamp = 0
  /\ new_db_filepath \in CleanupPaths
  /\ tar_gz_path = NoPath
  /\ start_reader = NoReader
  /\ start_path = current_db_file_path
  /\ start_disk = disk
  /\ outcome = "running"
  /\ created = {}
  /\ removed = {}
  /\ opened_new = FALSE
  /\ gap = FALSE
  /\ stable = {}
  /\ lpc = "idle"
  /\ l_reader = NoReader
  /\ l_input = "none"
  /\ l_result = "none"
  /\ l_served = NoReader
  /\ l_whois = "none"
  /\ spc = "idle"
  /\ s_loaded = FALSE
  /\ s_time = NoTime
  /\ s_result = StatusOf(NoReader, NoTime, "N/A", NoPath)
  /\ fpc = "idle"
  /\ f_data = PyNone
  /\ f_lang = "en"
  /\ f_out = PyNone

NextCleanup == CleanupOld

SpecCleanup == InitCleanup /\ [][NextCleanup]_vars

\* ------------------------------------------------- any wall-clock reading
\* datetime.now() is the wall clock: it can be stepped (back as well), so the
\* second it shows when a refresh starts need not differ from the second an
\* earlier refresh saw. Here an interval firing finds any reading.
SchedulerTickAnyClock ==
  /\ phase = "serving" /\ ticks < MaxTicks
  /\ ticks' = ticks + 1
  /\ \E t \in 1..MaxClock : now' = t
  /\ IF running >= max_instances
     THEN /\ dropped' = dropped + 1
          /\ UNCHANGED <<running, pc, caller>>
     ELSE /\ running' = running + 1
          /\ pc' = "check"
          /\ caller' = "scheduler"
          /\ UNCHANGED dropped
  /\ UNCHANGED <<cfgvars, mgrvars, envvars, phase, timestamp, new_db_filepath,
                 tar_gz_path, histvars, lookupvars, statusvars, filtervars>>

NextAnyClock ==
  \/ InitialLoad
  \/ SchedulerTickAnyClock
  \/ CheckForNewRelease
  \/ ReturnSkipped
  \/ ReturnOk
  \/ ReturnFailed
  \/ ReturnRaised
  \/ SelectSource
  \/ ExtFetch
  \/ ExtWrite
  \/ VendorFetch
  \/ VendorWrite
  \/ VendorExtract
  \/ RaiseNoMember
  \/ CloseOld
  \/ OpenDatabase
  \/ SetUpdateTime
  \/ CleanupOld
  \/ SetFilePath
  \/ Except
  \/ CleanupFailed
  \/ NoSource
  \/ LookupCheckLoaded
  \/ LookupValidate
  \/ LookupLoadReader
  \/ LookupGet
  \/ LookupRespond
  \/ StatusReadLoaded
  \/ StatusReadTime
  \/ StatusReadFile

SpecAnyClock == Init /\ [][NextAnyClock]_vars

\* ================================================================== claims
\* Refreshes executing: the initial load in __main__, and the job's instances.
RefreshesExecuting ==
  (IF caller = "main" /\ pc # "idle" THEN 1 ELSE 0) + running

\* The file backing the active reader, as a set (empty when none is loaded).
ActiveFile ==
  IF mmdb_reader # NoReader THEN {readers[mmdb_reader]} ELSE {}

\* C1: a download_and_load_database call that fails while a reader from an
\* earlier load is active returns with mmdb_reader still that reader, still
\* open, and get_status reporting database_loaded.
C1_FailedRefreshKeepsReader ==
  (outcome = "failed" /\ start_reader # NoReader) =>
     /\ mmdb_reader = start_reader
     /\ start_reader \notin closed
     /\ CurrentStatus.database_loaded

\* C2: in a refresh that succeeds while a reader was active, mmdb_reader is
\* at no point None or a closed reader (the old reader is closed only after
\* the new one is installed).
C2_NoGapDuringSuccessfulRefresh ==
  (outcome = "ok" /\ start_reader # NoReader) => ~gap

\* C3: whenever no refresh is in progress, mmdb_reader and
\* current_db_file_path are both None, or mmdb_reader is an open reader that
\* was opened from current_db_file_path.
C3_PathMatchesReader ==
  pc = "idle" =>
     \/ mmdb_reader = NoReader /\ current_db_file_path = NoPath
     \/ /\ mmdb_reader # NoReader
        /\ mmdb_reader \notin closed
        /\ readers[mmdb_reader] = current_db_file_path

\* C4: after every completed download_and_load_database call under the
\* external or vendor strategy, the storage directory holds no file of the
\* manager other than the one backing the active reader.
C4_OnlyActiveFileOnDisk ==
  (pc = "idle" /\ outcome \in {"ok", "failed"}
     /\ Strategy \in {"external", "vendor"}) =>
        ManagerFiles(disk) \subseteq ActiveFile

\* C5: a lookup concurrent with a refresh ends with a record or NotFound from
\* an open reader, or with 503 (or 400); it never calls get() on a closed
\* reader and never dereferences None.
C5_LookupNeverUsesDeadReader ==
  lpc = "done" =>
     /\ l_result \in {"200", "404", "503", "400"}
     /\ (l_result \in {"200", "404"} => l_served # NoReader)

\* C6: every get_status result equals the manager's status at a refresh
\* boundary: it never mixes fields of the state before a refresh's swap with
\* fields of the state after it. (Judged once no refresh is in progress, when
\* every boundary the call could have seen is recorded.)
C6_StatusIsConsistentSnapshot ==
  (pc = "idle" /\ spc = "done") => s_result \in stable

\* C7: at most one refresh executes at any time, and an interval firing that
\* finds the job still executing is dropped: it starts nothing and queues
\* nothing.
C7_AtMostOneRefresh ==
  /\ [](RefreshesExecuting <= 1)
  /\ [][(ticks' = ticks + 1 /\ running >= 1) =>
          /\ dropped' = dropped + 1
          /\ UNCHANGED <<running, jobvars, histvars, mgrvars, envvars>>]_vars

C7_Witness_TickDropped ==
  /\ dropped >= 1 /\ running = 1
  /\ caller = "scheduler" /\ outcome = "running"
  /\ pc \notin {"idle", "check"}

\* C8: after a refresh that fails following a successful load of file A,
\* current_db_file_path still is A's path and A's file still exists.
C8_FailedRefreshKeepsFileA ==
  (outcome = "failed" /\ start_path # NoPath) =>
     /\ current_db_file_path = start_path
     /\ Exists(start_path)

C8_Witness_FailedAfterLoad ==
  /\ pc = "idle" /\ outcome = "failed"
  /\ start_reader # NoReader /\ start_path # NoPath
  /\ created # {}

\* C9: a refresh removes the previously active database file only after
\* open_database has returned for the new file; until then (and so in a
\* refresh whose open fails) it removes nothing but files it created itself.
C9_OldFileRemovedOnlyAfterOpen ==
  /\ (start_path \in removed => opened_new)
  /\ (~opened_new => removed \subseteq created)

C9_Witness_OldFileRemoved ==
  /\ start_path # NoPath /\ start_path \in removed /\ opened_new
  /\ mmdb_reader # NoReader /\ readers[mmdb_reader] # start_path

\* C10: when a refresh under the external or vendor strategy fails, every
\* file it created in the storage directory is gone when
\* download_and_load_database returns.
C10_FailedRefreshRemovesItsFiles ==
  (pc = "idle" /\ outcome = "failed"
     /\ Strategy \in {"external", "vendor"}) =>
        created \cap disk = {}

\* C11: after every vendor-archive refresh, successful or failed, the
\* downloaded .tar.gz archive is gone from the storage directory.
C11_ArchiveRemovedAfterVendorRefresh ==
  (pc = "idle" /\ outcome \in {"ok", "failed"} /\ Strategy = "vendor") =>
     ~Exists(tar_gz_path)

\* C12 (as stated): download_and_load_database and
\* check_for_new_release_and_update never raise to their caller, whichever
\* step fails, creating the storage directory included.
C12_NeverRaises ==
  pc # "raised" /\ outcome # "raised"

\* C12 (amended): an exception leaves the two functions only from
\* os.makedirs; a failure of the transfer, the file write, the extraction,
\* close() or open_database is handled and the call returns normally.
C12_OnlyMakedirsRaises ==
  [][/\ (pc' = "raised" /\ pc # "raised") => pc = "makedirs"
     /\ (outcome' = "raised" /\ outcome # "raised") => pc = "raised"
     /\ pc = "except" => pc' \in {"except", "cleanup_failed", "ret_failed"}
     /\ pc = "cleanup_failed" => pc' \in {"cleanup_failed", "ret_failed"}]_vars

C12_Witness_HandledFailure ==
  /\ pc = "idle" /\ outcome = "failed"
  /\ start_reader # NoReader /\ start_reader \in closed
  /\ created # {} /\ ~opened_new

\* C13: in every refresh under the external or vendor strategy, the path the
\* refresh writes to differs from current_db_file_path of the active reader,
\* whatever the clock shows when the refresh starts.
C13_DownloadPathIsFresh ==
  (/\ outcome = "running"
   /\ Strategy \in {"external", "vendor"}
   /\ pc \in {"ext_fetch", "ext_write", "ven_fetch", "ven_write",
              "ven_extract", "close_old"}
   /\ mmdb_reader # NoReader) =>
     /\ new_db_filepath # current_db_file_path
     /\ tar_gz_path # current_db_file_path

\* C14: download_and_load_database runs exactly one acquisition branch, fixed
\* by the configuration: the external URL if set, else the local file if set,
\* else the vendor archive if a license key is set, else none (mmdb_reader is
\* set to null and nothing is fetched). A call touches only files of its
\* branch.
C14_OneStrategyByPrecedence ==
  /\ pc \in {"ext_fetch", "ext_write"} => EXTERNAL_DB_URL
  /\ (/\ outcome = "running"
      /\ pc \in {"close_old", "open", "set_time", "set_path"}
      /\ new_db_filepath = CustomPath) =>
        (~EXTERNAL_DB_URL /\ CUSTOM_DB_FILE)
  /\ pc \in {"ven_fetch", "ven_write", "ven_extract"} =>
        (~EXTERNAL_DB_URL /\ ~CUSTOM_DB_FILE /\ MAXMIND_LICENSE_KEY)
  /\ pc = "no_source" =>
        (~EXTERNAL_DB_URL /\ ~CUSTOM_DB_FILE /\ ~MAXMIND_LICENSE_KEY)
  /\ outcome \in {"running", "ok", "failed"} =>
        created \subseteq
          (IF EXTERNAL_DB_URL THEN {ExternalPath(timestamp)}
           ELSE IF CUSTOM_DB_FILE THEN {}
           ELSE IF MAXMIND_LICENSE_KEY
                THEN {TarGzPath(timestamp), ExtractedPath(timestamp)}
           ELSE {})
  /\ (/\ pc = "idle" /\ outcome = "failed"
      /\ ~EXTERNAL_DB_URL /\ ~CUSTOM_DB_FILE /\ ~MAXMIND_LICENSE_KEY) =>
        (mmdb_reader = NoReader /\ created = {} /\ disk = start_disk)

\* All three sources configured, and a call has loaded the external file.
C14_Witness_ExternalWins ==
  /\ EXTERNAL_DB_URL /\ CUSTOM_DB_FILE /\ MAXMIND_LICENSE_KEY
  /\ pc = "idle" /\ outcome = "ok"
  /\ created = {ExternalPath(timestamp)}
  /\ current_db_file_path = ExternalPath(timestamp)

\* C15: after download_and_load_database succeeds, mmdb_reader is the open
\* reader obtained by opening the newly acquired file, last_db_update_time is
\* set, current_db_file_path is the new file's path, that file is on disk,
\* and get_status reports database_loaded = true.
C15_SuccessPostcondition ==
  (pc = "idle" /\ outcome = "ok") =>
     /\ mmdb_reader # NoReader
     /\ mmdb_reader # start_reader
     /\ mmdb_reader \in DOMAIN readers
     /\ mmdb_reader \notin closed
     /\ readers[mmdb_reader] = new_db_filepath
     /\ last_db_update_time # NoTime
     /\ current_db_file_path = new_db_filepath
     /\ new_db_filepath # NoPath
     /\ Exists(new_db_filepath)
     /\ CurrentStatus.database_loaded

\* A refresh that replaced an earlier database has succeeded.
C15_Witness_SecondLoadSucceeded ==
  /\ pc = "idle" /\ outcome = "ok"
  /\ start_reader # NoReader
  /\ start_path # current_db_file_path
  /\ removed # {}

\* C16: when the first download_and_load_database call of a manager fails
\* (download error, or no usable source), then until the next call
\* mmdb_reader is null, current_db_file_path is null, get_status reports
\* database_loaded = false, and every geo lookup answers 503.
C16_FirstLoadFailed ==
  (pc = "idle" /\ outcome = "failed" /\ caller = "main") =>
     /\ mmdb_reader = NoReader
     /\ current_db_file_path = NoPath
     /\ ~CurrentStatus.database_loaded
     /\ CurrentStatus.current_database_file = <<"N/A", 0>>
     /\ lpc \in {"idle", "done"}
     /\ l_result \in {"none", "503"}
     /\ (spc = "done" => ~s_result.database_loaded)

\* The first load broke off after writing to disk, and a lookup has been
\* answered since.
C16_Witness_LookupAfterFailedFirstLoad ==
  /\ pc = "idle" /\ outcome = "failed" /\ caller = "main"
  /\ created # {}
  /\ lpc = "done" /\ l_result = "503"
  /\ spc = "done"

\* C17: every reader the manager has stopped using (replaced by a successful
\* refresh or dropped by a failed one) has been closed: no reader other than
\* the one the manager holds is still open.
C17_DroppedReadersClosed ==
  \A r \in DOMAIN readers : r # mmdb_reader => r \in closed

\* C18: with CUSTOM_DB_FILE configured, a call of
\* check_for_new_release_and_update never enters download_and_load_database
\* and leaves mmdb_reader, last_db_update_time, current_db_version_tag,
\* current_db_file_path and the files on disk as they are.
C18_CustomFileCheckIsNoOp ==
  [][(CUSTOM_DB_FILE /\ caller' = "scheduler") =>
        /\ UNCHANGED <<mgrvars, disk, readers, closed>>
        /\ pc' \in {"idle", "check", "ret_skipped"}]_vars

\* With the custom file loaded, an update check has run and returned.
C18_Witness_CheckSkipped ==
  /\ CUSTOM_DB_FILE /\ caller = "scheduler"
  /\ pc = "idle" /\ outcome = "skipped"
  /\ mmdb_reader # NoReader /\ current_db_file_path = CustomPath

\* C19: whenever the strategy download_and_load_database uses is the external
\* URL or the vendor archive, a call of check_for_new_release_and_update
\* calls download_and_load_database (it never returns without downloading).
C19_CheckAlwaysDownloads ==
  Strategy \in {"external", "vendor"} => pc # "ret_skipped"

\* C20: the file at CUSTOM_DB_FILE is never deleted by the manager, whatever
\* loads and update checks run, failing loads included.
C20_CustomFileNeverDeleted ==
  [][Exists(CustomPath) => Exists(CustomPath)']_vars

\* The custom file is on disk after a load of it failed.
C20_Witness_FailedLocalLoad ==
  /\ Strategy = "local" /\ pc = "idle" /\ outcome = "failed"
  /\ new_db_filepath = CustomPath
  /\ Exists(CustomPath)

\* C21: an update check that finds a release tag different from
\* current_db_version_tag records that tag in current_db_version_tag and
\* downloads. The constructor's "N/A" is no release tag, so once an update
\* check has downloaded, current_db_version_tag names a release.
C21_CheckRecordsReleaseTag ==
  (caller = "scheduler" /\ pc = "idle" /\ outcome \in {"ok", "failed"}) =>
     current_db_version_tag # "N/A"

\* C23: a geo lookup answers 503 exactly when it finds no reader loaded as
\* the request arrives, and 404 exactly when the reader it queries is open,
\* the input is a valid or resolvable address and the reader has no record
\* for it; neither answer is given in the other's case.
C23_UnavailableAndNotFoundDistinct ==
  [][/\ (lpc \in {"idle", "done"} /\ lookupvars' # lookupvars) =>
          (l_result' = "503" <=> mmdb_reader = NoReader)
     /\ (l_result' = "503" /\ l_result # "503") =>
          (lpc \in {"idle", "done"} /\ mmdb_reader = NoReader)
     /\ (lpc = "get" /\ lpc' # "get") =>
          (l_result' = "404" <=>
             /\ l_reader # NoReader /\ l_reader \notin closed
             /\ l_input = "unknown_ip")
     /\ (l_result' = "404" /\ l_result # "404") =>
          (lpc = "get" /\ l_reader # NoReader)]_vars

\* A lookup of an address the loaded database has no record for was answered.
C23_Witness_NotFoundAnswered ==
  /\ lpc = "done" /\ l_result = "404"
  /\ l_input = "unknown_ip" /\ l_served # NoReader

C25_WhoisFailureKeepsLookup ==
  (lpc = "done" /\ l_whois \in {"partial", "raised"}) => l_result = "200"

NameByPresence(names, lang_code) ==
  IF HasKey(names, lang_code) THEN Get(names, lang_code)
  ELSE IF HasKey(names, DefaultFallback) THEN Get(names, DefaultFallback)
  ELSE FirstValue(names)

\* The first of names[lang_code], names[fallback] and the first value that is
\* not empty (None when there is none).
NameByContent(names, lang_code) ==
  IF Truthy(Get(names, lang_code)) THEN Get(names, lang_code)
  ELSE IF Truthy(Get(names, DefaultFallback)) THEN Get(names, DefaultFallback)
  ELSE IF Truthy(FirstValue(names)) THEN FirstValue(names)
  ELSE PyNone

\* Every dict of the input that holds a 'names' mapping has, in the output,
\* no 'names' key and the expected 'name': by key presence (as_stated), or by
\* content, with no 'name' added when nothing is chosen.
RECURSIVE NamesRule(_, _, _, _)
NamesRule(in, out, lang_code, as_stated) ==
  IF in.t = "dict"
  THEN /\ out.t = "dict"
       /\ (HasKey(in.kv, "names") /\ Get(in.kv, "names").t = "dict") =>
            LET names == Get(in.kv, "names").kv
                expected == IF as_stated THEN NameByPresence(names, lang_code)
                            ELSE NameByContent(names, lang_code)
            IN  /\ ~HasKey(out.kv, "names")
                /\ IF as_stated
                   THEN IF names = <<>> THEN ~HasKey(out.kv, "name")
                        ELSE /\ HasKey(out.kv, "name")
                             /\ Get(out.kv, "name") = expected
                   ELSE IF expected # PyNone
                        THEN /\ HasKey(out.kv, "name")
                             /\ Get(out.kv, "name") = expected
                        ELSE HasKey(out.kv, "name") <=> HasKey(in.kv, "name")
       /\ \A i \in 1..Len(in.kv) :
            LET k == in.kv[i][1]
            IN  (HasKey(out.kv, k) /\ ~(k = "names" /\ in.kv[i][2].t = "dict"))
                  => NamesRule(in.kv[i][2], Get(out.kv, k), lang_code,
                               as_stated)
  ELSE IF in.t = "list"
  THEN /\ out.t = "list"
       /\ \A i \in 1..Len(in.kv) :
            i <= Len(out.kv) =>
              NamesRule(in.kv[i][2], out.kv[i][2], lang_code, as_stated)
  ELSE TRUE

\* C28 (as stated): every mapping with a 'names' mapping gets a single 'name'
\* equal to names[lang_code] when that key is present, else names[fallback]
\* when present, else the first value of names, and no 'name' at all when
\* names has no entries.
C28_NameChosenByKeyPresence ==
  fpc = "done" => NamesRule(f_data, f_out, f_lang, TRUE)

\* C28 (amended): 'names' is removed and 'name' is set to the first non-empty
\* of names[lang_code], names[fallback] and the first value of names; when
\* none of them is non-empty no 'name' is set (one already there stays).
C28_NameChosenAmongNonEmpty ==
  fpc = "done" => NamesRule(f_data, f_out, f_lang, FALSE)

\* The requested language is present but empty, and the fallback was taken.
C28_Witness_EmptyNameSkipped ==
  /\ fpc = "done" /\ f_lang = "de"
  /\ f_data = Place(<< <<"de", PyStr("")>>, <<"en", PyStr("Berlin")>> >>)
  /\ Get(f_out.kv, "name") = PyStr("Berlin")
  /\ ~HasKey(f_out.kv, "names")

\* No dict of the value, at any depth, has a 'names' key.
RECURSIVE NoNames(_)
NoNames(data) ==
  /\ ~(data.t = "dict" /\ HasKey(data.kv, "names"))
  /\ \A i \in 1..Len(data.kv) : NoNames(data.kv[i][2])

\* Everything but 'names' mappings is kept: a non-container is returned as it
\* is, a list keeps its length and order, a dict keeps every other key with
\* its processed value and gains at most 'name'.
RECURSIVE FrameKept(_, _)
FrameKept(in, out) ==
  IF in.t = "dict"
  THEN /\ out.t = "dict"
       /\ \A i \in 1..Len(in.kv) :
            LET k == in.kv[i][1]
            IN  ~(k = "names" /\ in.kv[i][2].t = "dict") =>
                  /\ HasKey(out.kv, k)
                  /\ FrameKept(in.kv[i][2], Get(out.kv, k))
       /\ \A i \in 1..Len(out.kv) :
            out.kv[i][1] = "name" \/ HasKey(in.kv, out.kv[i][1])
  ELSE IF in.t = "list"
  THEN /\ out.t = "list"
       /\ Len(out.kv) = Len(in.kv)
       /\ \A i \in 1..Len(in.kv) : FrameKept(in.kv[i][2], out.kv[i][2])
  ELSE out = in

\* C29: filter_names_by_lang changes nothing except 'names' fields: every
\* other key of every mapping is kept with its processed value, lists keep
\* length and order, non-containers are returned as they are, and an input
\* without any 'names' field is returned equal to the input.
C29_OnlyNamesFieldsChange ==
  fpc = "done" =>
     /\ FrameKept(f_data, f_out)
     /\ (NoNames(f_data) => f_out = f_data)

\* C30: get_status never raises (a call started always runs to its return)
\* and reports database_loaded = (mmdb_reader is not null),
\* last_database_update_check_utc = the ISO form of last_db_update_time or
\* 'N/A' when null, current_database_version_tag = current_db_version_tag and
\* current_database_file = current_db_file_path or 'N/A' when null, each
\* field from the attribute as the call reads it; a newly constructed manager
\* reports false, 'N/A', 'N/A', 'N/A'.
C30_StatusReportsManagerFields ==
  /\ [](spc \in {"idle", "read_time", "read_file", "done"})
  /\ [](CurrentStatus =
          [database_loaded |-> mmdb_reader # NoReader,
           last_database_update_check_utc |->
              IF last_db_update_time = NoTime THEN <<"N/A", 0>>
              ELSE <<"iso", last_db_update_time>>,
           current_database_version_tag |-> current_db_version_tag,
           current_database_file |->
              IF current_db_file_path = NoPath THEN <<"N/A", 0>>
              ELSE current_db_file_path])
  /\ []((phase = "startup" /\ outcome = "none") =>
          CurrentStatus =
            [database_loaded |-> FALSE,
             last_database_update_check_utc |-> <<"N/A", 0>>,
             current_database_version_tag |-> "N/A",
             current_database_file |-> <<"N/A", 0>>])
  /\ [][/\ (spc \in {"idle", "done"} /\ spc' = "read_time") =>
             s_loaded' = (mmdb_reader # NoReader)
        /\ (spc = "read_time" /\ spc' = "read_file") =>
             s_time' = last_db_update_time
        /\ (spc = "read_file" /\ spc' = "done") =>
             s_result' =
               [database_loaded |-> s_loaded,
                last_database_update_check_utc |->
                   IF s_time = NoTime THEN <<"N/A", 0>>
                   ELSE <<"iso", s_time>>,
                current_database_version_tag |-> current_db_version_tag,
                current_database_file |->
                   IF current_db_file_path = NoPath THEN <<"N/A", 0>>
                   ELSE current_db_file_path]]_vars

\* A status call made after a successful load has returned the loaded state.
C30_Witness_StatusOfLoadedManager ==
  /\ spc = "done" /\ pc = "idle" /\ outcome = "ok"
  /\ s_result.database_loaded
  /\ s_result.last_database_update_check_utc = <<"iso", last_db_update_time>>
  /\ s_result.current_database_file = current_db_file_path
  /\ current_db_file_path # NoPath

\* C31: a failed download_and_load_database leaves last_db_update_time,
\* current_db_version_tag and current_db_file_path as they were before the
\* call: the three change only in steps of a call in which open_database has
\* returned, and a call that fails is one in which it never did.
C31_FailedRefreshKeepsTimeTagPath ==
  /\ []((pc = "idle" /\ outcome = "failed") =>
          (~opened_new /\ current_db_file_path = start_path))
  /\ []((pc \in {"except", "cleanup_failed", "ret_failed", "no_source"}) =>
          ~opened_new)
  /\ [][(~opened_new' \/ outcome' # "running" \/ outcome # "running") =>
          UNCHANGED <<last_db_update_time, current_db_version_tag,
                      current_db_file_path>>]_vars

\* A refresh failed on a manager that had a database loaded.
C31_Witness_FailedWithHistory ==
  /\ pc = "idle" /\ outcome = "failed"
  /\ start_path # NoPath /\ current_db_file_path = start_path
  /\ last_db_update_time # NoTime
  /\ mmdb_reader = NoReader

C34_ActiveFileExists ==
  (pc = "idle" /\ mmdb_reader # NoReader) =>
     /\ current_db_file_path # NoPath
     /\ Exists(current_db_file_path)
     /\ readers[mmdb_reader] = current_db_file_path
     /\ mmdb_reader \notin closed

\* The second database is active after the first one was replaced and its
\* file removed.
C34_Witness_ReplacedAndActive ==
  /\ pc = "idle" /\ mmdb_reader # NoReader
  /\ start_path # NoPath /\ start_path # current_db_file_path
  /\ ~Exists(start_path) /\ Exists(current_db_file_path)

\* C35: if a refresh fails after database file A was loaded and a later
\* refresh succeeds with database file B, then after the later refresh A's
\* file has been deleted and B's file is the only database file (.mmdb) of
\* the manager left on disk.  A refresh that starts with a null reader and a
\* recorded path follows a success and a failure (only the except blocks
\* null the reader, only a success records a path).
C35_FailureBetweenSuccessesLeaksNothing ==
  (/\ pc = "idle" /\ outcome = "ok"
   /\ start_reader = NoReader /\ start_path # NoPath)
  => /\ ~Exists(start_path)
     /\ {p \in ManagerFiles(disk) : p[1] \in {"external", "GeoLite2-City.mmdb"}}
          = {current_db_file_path}

\* C36: under the external-URL or vendor-archive strategy, a scheduler tick
\* that runs while the source is reachable and valid (its check does not end
\* in a failed download) leaves database_loaded true: after a failed refresh
\* the manager recovers at the next such tick.
C36_TickRecoversManager ==
  (/\ caller = "scheduler" /\ pc = "idle"
   /\ Strategy \in {"external", "vendor"}
   /\ outcome \in {"ok", "skipped"})
  => mmdb_reader # NoReader

\* C37: under the local-file strategy a failed initial load is never retried:
\* a scheduler tick returns from the update check without entering
\* download_and_load_database, so once the server runs with a null reader the
\* reader stays null, status reports database_loaded false and every geo
\* lookup is answered 503.
C37_LocalFailureIsPermanent ==
  /\ []((Strategy = "local" /\ caller = "scheduler")
          => pc \in {"idle", "check", "ret_skipped"})
  /\ [][(Strategy = "local" /\ phase = "serving" /\ mmdb_reader = NoReader)
          => mmdb_reader' = NoReader]_vars
  /\ []((Strategy = "local" /\ phase = "serving" /\ mmdb_reader = NoReader)
          => /\ (lpc = "done" => l_result = "503")
             /\ lpc \in {"idle", "done"}
             /\ (spc = "done" => ~s_loaded))

\* The local file failed to load at startup, every tick has fired and
\* returned, and a lookup and a status request have been answered.
C37_Witness_StillUnavailable ==
  /\ Strategy = "local" /\ mmdb_reader = NoReader
  /\ ticks = MaxTicks /\ caller = "scheduler" /\ pc = "idle"
  /\ outcome = "skipped"
  /\ lpc = "done" /\ l_result = "503"
  /\ spc = "done" /\ ~s_loaded

\* C38: at process start the initial download_and_load_database call has
\* returned before the scheduler is started and before the server accepts
\* requests: while startup lasts no tick has fired and no request is handled,
\* the initial load runs only during startup, and ticks and requests happen
\* only once it has returned.
C38_InitialLoadBeforeSchedulerAndServer ==
  /\ [](phase = "startup" =>
          /\ ticks = 0 /\ running = 0 /\ dropped = 0
          /\ lpc = "idle" /\ spc = "idle"
          /\ caller = "main")
  /\ []((caller = "main" /\ pc # "idle") => phase = "startup")
  /\ [](phase = "serving" => outcome # "none")
  /\ [][(ticks' # ticks \/ lpc' # lpc \/ spc' # spc)
          => (phase = "serving" /\ ~(caller = "main" /\ pc # "idle"))]_vars

\* The initial load has opened its database and is about to record the path;
\* the scheduler and the server are not started yet.
C38_Witness_InitialLoadRunning ==
  /\ phase = "startup" /\ caller = "main" /\ pc = "set_path"
  /\ outcome = "running" /\ opened_new
  /\ ticks = 0 /\ lpc = "idle"

====
